---- MODULE Spec2Model ----
(***************************************************************************)
(* Model of the two TensorFlow Lite stub headers of Openock:               *)
(*   ThirdParty/TFLite/tensorflow/lite/core/c/types.h                      *)
(*   ThirdParty/TFLite/tensorflow/compiler/mlir/lite/core/c/tflite_types.h *)
(*                                                                         *)
(* The headers hold declarations only.  A declaration is modelled as data  *)
(* (the enumerator list, the member list), and the operations are the ones *)
(* the C language gives every object of the declared type: assignment of   *)
(* an enumerator, aggregate initialisation, member assignment and          *)
(* memberwise copy.  Each of them is computed from the declaration.        *)
(***************************************************************************)
EXTENDS Integers, Sequences, FiniteSets, TLC

VARIABLES
  type,      \* an object of type TfLiteType: the integer it holds
  typeName,  \* the enumerator last assigned to it ("" before the first)
  dimType,   \* an object of type TfLiteDimensionType: the integer it holds
  dimName,   \* the enumerator last assigned to it ("" before the first)
  rawIn,     \* the integer last looked up among the TfLiteType enumerators
  tags,      \* the TfLiteType enumerators whose value is rawIn
  mem,       \* the TfLiteQuantizationParams objects p and q, by name
  origin,    \* for each object, the object it was last copied from
  op,        \* the last operation on mem: <<kind, object, member or source>>
  scaleIn,   \* the last value given for a scale, before conversion
  zeroIn,    \* the last value given for a zero_point, before conversion
  handles,   \* the MlirContext and MlirType objects, by name
  hop        \* the last operation on handles: <<kind, object, source>>

enumVars   == <<type, typeName, dimType, dimName, rawIn, tags>>
paramVars  == <<mem, origin, op, scaleIn, zeroIn>>
handleVars == <<handles, hop>>
vars       == <<enumVars, paramVars, handleVars>>

----------------------------------------------------------------------------
(* Enumerations.  An enumerator is its name and its initialiser; `init` is *)
(* <<v>> for `name = v` and <<>> for a bare `name`.                        *)

E(n, v) == [name |-> n, init |-> <<v>>]

(* TfLiteType with the values of its last two enumerators exchanged.       *)
TfLiteType_Swapped ==
  << E("kTfLiteNoType", 0),    E("kTfLiteFloat32", 1),
     E("kTfLiteInt32", 2),     E("kTfLiteUInt8", 3),
     E("kTfLiteInt64", 4),     E("kTfLiteString", 5),
     E("kTfLiteBool", 6),      E("kTfLiteInt16", 7),
     E("kTfLiteComplex64", 8), E("kTfLiteInt8", 9),
     E("kTfLiteFloat16", 10),  E("kTfLiteFloat64", 11),
     E("kTfLiteUInt64", 12),   E("kTfLiteResource", 13),
     E("kTfLiteVariant", 14),  E("kTfLiteUInt32", 16),
     E("kTfLiteUInt16", 15) >>

(* TfLiteType with kTfLiteUInt16 given the value kTfLiteUInt32 has.        *)
TfLiteType_Duplicate ==
  << E("kTfLiteNoType", 0),    E("kTfLiteFloat32", 1),
     E("kTfLiteInt32", 2),     E("kTfLiteUInt8", 3),
     E("kTfLiteInt64", 4),     E("kTfLiteString", 5),
     E("kTfLiteBool", 6),      E("kTfLiteInt16", 7),
     E("kTfLiteComplex64", 8), E("kTfLiteInt8", 9),
     E("kTfLiteFloat16", 10),  E("kTfLiteFloat64", 11),
     E("kTfLiteUInt64", 12),   E("kTfLiteResource", 13),
     E("kTfLiteVariant", 14),  E("kTfLiteUInt32", 15),
     E("kTfLiteUInt16", 15) >>

TfLiteType ==
  << E("kTfLiteNoType", 0),    E("kTfLiteFloat32", 1),
     E("kTfLiteInt32", 2),     E("kTfLiteUInt8", 3),
     E("kTfLiteInt64", 4),     E("kTfLiteString", 5),
     E("kTfLiteBool", 6),      E("kTfLiteInt16", 7),
     E("kTfLiteComplex64", 8), E("kTfLiteInt8", 9),
     E("kTfLiteFloat16", 10),  E("kTfLiteFloat64", 11),
     E("kTfLiteUInt64", 12),   E("kTfLiteResource", 13),
     E("kTfLiteVariant", 14),  E("kTfLiteUInt32", 15),
     E("kTfLiteUInt16", 16) >>

(* TfLiteDimensionType with a fourth enumerator.                           *)
TfLiteDimensionType_Extra ==
  << E("kTfLiteDimDense", 0),
     E("kTfLiteDimSparseCSR", 1),
     E("kTfLiteDimSparseCOO", 2),
     [name |-> "kTfLiteDimSparseBlock", init |-> <<>>] >>

TfLiteDimensionType ==
  << E("kTfLiteDimDense", 0),
     E("kTfLiteDimSparseCSR", 1),
     E("kTfLiteDimSparseCOO", 2) >>

(* The value of the i-th enumerator: its initialiser, and without one the  *)
(* previous enumerator's value plus one (0 for the first).                 *)
RECURSIVE EnumValueAt(_, _)
EnumValueAt(decl, i) ==
  IF decl[i].init # <<>> THEN decl[i].init[1]
  ELSE IF i = 1 THEN 0
  ELSE EnumValueAt(decl, i - 1) + 1

EnumNames(decl) == {decl[i].name : i \in DOMAIN decl}

EnumValue(decl, n) ==
  EnumValueAt(decl, CHOOSE i \in DOMAIN decl : decl[i].name = n)

EnumValues(decl) == {EnumValueAt(decl, i) : i \in DOMAIN decl}

(* The enumerators an integer stands for.                                  *)
EnumTags(decl, v) == {n \in EnumNames(decl) : EnumValue(decl, n) = v}

(* Integers looked up among the enumerators: 0 .. MaxRaw.                  *)
MaxRaw == 17

InitEnum ==
  /\ type = 0
  /\ typeName = ""
  /\ dimType = 0
  /\ dimName = ""
  /\ rawIn = 0
  /\ tags = EnumTags(TfLiteType, 0)

(* TfLiteType t = n; *)
AssignType(n) ==
  /\ type' = EnumValue(TfLiteType, n)
  /\ typeName' = n
  /\ UNCHANGED <<dimType, dimName, rawIn, tags, paramVars, handleVars>>

(* TfLiteDimensionType d = n; *)
AssignDimType(n) ==
  /\ dimType' = EnumValue(TfLiteDimensionType, n)
  /\ dimName' = n
  /\ UNCHANGED <<type, typeName, rawIn, tags, paramVars, handleVars>>

(* The enumerators of TfLiteType an integer read from outside stands for.  *)
LookupType(v) ==
  /\ rawIn' = v
  /\ tags' = EnumTags(TfLiteType, v)
  /\ UNCHANGED <<type, typeName, dimType, dimName, paramVars, handleVars>>

NextEnum ==
  \/ \E n \in EnumNames(TfLiteType) : AssignType(n)
  \/ \E n \in EnumNames(TfLiteDimensionType) : AssignDimType(n)
  \/ \E v \in 0..MaxRaw : LookupType(v)

----------------------------------------------------------------------------
(* Structures.  A member is its type and its name, in declaration order.   *)

M(t, n) == [type |-> t, name |-> n]

(* TfLiteQuantizationParams with its two members in the other order.       *)
TfLiteQuantizationParams_Swapped ==
  << M("int32_t", "zero_point"),
     M("float", "scale") >>

TfLiteQuantizationParams ==
  << M("float", "scale"),
     M("int32_t", "zero_point") >>

(* MlirContext with a second member after the pointer.                     *)
MlirContext_TwoMembers == << M("void*", "ptr"), M("int32_t", "id") >>

MlirContext == << M("void*", "ptr") >>

MlirType == << M("void*", "ptr") >>

FieldNames(decl) == {decl[i].name : i \in DOMAIN decl}

FieldIndex(decl, f) == CHOOSE i \in DOMAIN decl : decl[i].name = f

FieldType(decl, f) == decl[FieldIndex(decl, f)].type

(* A real number given to a float member is written <<m, e>>, meaning      *)
(* m * 2^e.  A float is kept in the form with m odd (or <<0, 0>>) and      *)
(* |m| < 2^24, the 24-bit significand of a 32-bit float.  The exponent     *)
(* range is not modelled: the values used are far from overflow.           *)
RECURSIVE StripTwos(_, _)
StripTwos(m, e) ==
  IF m = 0 THEN <<0, 0>>
  ELSE IF m % 2 = 0 THEN StripTwos(m \div 2, e + 1)
  ELSE <<m, e>>

RECURSIVE BitLen(_)
BitLen(n) == IF n = 0 THEN 0 ELSE 1 + BitLen(n \div 2)

Abs(n) == IF n < 0 THEN -n ELSE n

Sign(n) == IF n < 0 THEN -1 ELSE IF n = 0 THEN 0 ELSE 1

(* A conversion that refuses a negative value and stores zero for it.      *)
ToFloat_NonNegative(x) ==
  IF x[1] < 0 THEN <<0, 0>> ELSE StripTwos(x[1], x[2])

(* Conversion to float: round to nearest, ties to even.                    *)
ToFloat(x) ==
  LET n == StripTwos(x[1], x[2])
      a == Abs(n[1])
      k == BitLen(a) - 24
  IN  IF k <= 0 THEN n
      ELSE LET q    == a \div (2 ^ k)
               r    == a % (2 ^ k)
               half == 2 ^ (k - 1)
               up   == r > half \/ (r = half /\ q % 2 = 1)
               q2   == IF up THEN q + 1 ELSE q
           IN  StripTwos(Sign(n[1]) * q2, n[2] + k)

(* An integer given to an int32_t member may be wider than 32 bits; it is  *)
(* written <<hi, lo>>, meaning hi * 2^16 + lo with lo in 0 .. 2^16 - 1.    *)
Wide(n) == <<n \div 65536, n % 65536>>

InInt32(w) == w[1] \in -32768 .. 32767

(* A conversion that keeps the low 16 bits only, as for an int16_t member. *)
ToInt32_Narrow(w) == ((w[2] + 32768) % 65536) - 32768

(* Conversion to int32_t: the value modulo 2^32, in -2^31 .. 2^31 - 1.     *)
ToInt32(w) == (((w[1] + 32768) % 65536) - 32768) * 65536 + w[2]

Convert(t, v) ==
  CASE t = "float"   -> ToFloat(v)
    [] t = "int32_t" -> ToInt32(v)
    [] OTHER         -> v

(* The zero of a type: what static storage and a missing initialiser hold. *)
Zero(t) == IF t = "float" THEN <<0, 0>> ELSE 0

ZeroStruct(decl) == [f \in FieldNames(decl) |-> Zero(FieldType(decl, f))]

(* T x = {v1, v2, ...}: the initialisers go to the members in declaration  *)
(* order, each converted to its member's type; a member without one is     *)
(* zero.                                                                   *)
Aggregate(decl, vals) ==
  [f \in FieldNames(decl) |->
     IF FieldIndex(decl, f) <= Len(vals)
     THEN Convert(FieldType(decl, f), vals[FieldIndex(decl, f)])
     ELSE Zero(FieldType(decl, f))]

(* A copy that takes the first declared member and leaves the rest zero.   *)
CopyStruct_FirstOnly(decl, src) ==
  [f \in FieldNames(decl) |->
     IF FieldIndex(decl, f) = 1 THEN src[f] ELSE Zero(FieldType(decl, f))]

(* dst = src: every declared member is copied, no conversion.              *)
CopyStruct(decl, src) == [f \in FieldNames(decl) |-> src[f]]

(* A member assignment that writes through to the objects o was copied     *)
(* from or into, as if a copy shared its storage.                          *)
AssignMember_Shared(decl, m, o, f, v) ==
  [x \in DOMAIN m |->
     IF x = o \/ origin[x] = o \/ origin[o] = x
     THEN [m[x] EXCEPT ![f] = Convert(FieldType(decl, f), v)]
     ELSE m[x]]

(* m[o].f = v: the one member of the one object, converted to its type.    *)
AssignMember(decl, m, o, f, v) ==
  [m EXCEPT ![o] = [m[o] EXCEPT ![f] = Convert(FieldType(decl, f), v)]]

----------------------------------------------------------------------------
(* TfLiteQuantizationParams objects.                                       *)

Objs == {"p", "q"}

ScaleInputs ==
  { <<1, -1>>,         \* 0.5
    <<2, -2>>,         \* 0.5 again, written 2/4
    <<0, 0>>,          \* 0
    <<-3, -1>>,        \* -1.5
    <<16777217, 0>> }  \* 2^24 + 1, not a float

ZeroInputs ==
  { <<0, 128>>,        \* 128
    <<-1, 65535>>,     \* -1
    <<-32768, 0>>,     \* -2^31
    <<32767, 65535>>,  \* 2^31 - 1
    <<32768, 0>>,      \* 2^31
    <<-32769, 65535>>, \* -2^31 - 1
    <<65536, 128>> }   \* 2^32 + 128

InitParamsState ==
  /\ mem = [o \in Objs |-> ZeroStruct(TfLiteQuantizationParams)]
  /\ origin = [o \in Objs |-> o]
  /\ op = <<"none", "", "">>
  /\ scaleIn = <<0, 0>>
  /\ zeroIn = <<0, 0>>

(* TfLiteQuantizationParams o = {s, z}; *)
InitParams(o, s, z) ==
  /\ mem' = [mem EXCEPT ![o] = Aggregate(TfLiteQuantizationParams, <<s, z>>)]
  /\ origin' = [origin EXCEPT ![o] = o]
  /\ op' = <<"init", o, "">>
  /\ scaleIn' = s
  /\ zeroIn' = z
  /\ UNCHANGED <<enumVars, handleVars>>

(* dst = src; *)
CopyParams(dst, src) ==
  /\ dst # src
  /\ mem' = [mem EXCEPT ![dst] = CopyStruct(TfLiteQuantizationParams, mem[src])]
  /\ origin' = [origin EXCEPT ![dst] = src]
  /\ op' = <<"copy", dst, src>>
  /\ UNCHANGED <<scaleIn, zeroIn, enumVars, handleVars>>

(* o.scale = s; *)
AssignScale(o, s) ==
  /\ mem' = AssignMember(TfLiteQuantizationParams, mem, o, "scale", s)
  /\ op' = <<"assign", o, "scale">>
  /\ scaleIn' = s
  /\ UNCHANGED <<origin, zeroIn, enumVars, handleVars>>

(* o.zero_point = z; *)
AssignZeroPoint(o, z) ==
  /\ mem' = AssignMember(TfLiteQuantizationParams, mem, o, "zero_point", z)
  /\ op' = <<"assign", o, "zero_point">>
  /\ zeroIn' = z
  /\ UNCHANGED <<origin, scaleIn, enumVars, handleVars>>

NextParams ==
  \/ \E o \in Objs, s \in ScaleInputs, z \in ZeroInputs : InitParams(o, s, z)
  \/ \E dst \in Objs, src \in Objs : CopyParams(dst, src)
  \/ \E o \in Objs, s \in ScaleInputs : AssignScale(o, s)
  \/ \E o \in Objs, z \in ZeroInputs : AssignZeroPoint(o, z)

----------------------------------------------------------------------------
(* MlirContext and MlirType objects.  A pointer is 0 (null) or one of the  *)
(* addresses 1 .. MaxAddr; nothing in the headers dereferences it.         *)

MaxAddr == 2

Contexts == {"ctx", "ctx2"}

Types == {"ty", "ty2"}

HandleDecl(h) == IF h \in Contexts THEN MlirContext ELSE MlirType

InitHandles ==
  /\ handles = [h \in Contexts \cup Types |-> ZeroStruct(HandleDecl(h))]
  /\ hop = <<"none", "", "">>

(* MlirContext h = {a};  MlirType h = {a}; *)
MakeHandle(h, a) ==
  /\ handles' = [handles EXCEPT ![h] = Aggregate(HandleDecl(h), <<a>>)]
  /\ hop' = <<"init", h, "">>
  /\ UNCHANGED <<enumVars, paramVars>>

(* dst = src, both of the same type *)
CopyHandle(dst, src) ==
  /\ dst # src
  /\ (dst \in Contexts) = (src \in Contexts)
  /\ handles' = [handles EXCEPT ![dst] = CopyStruct(HandleDecl(dst), handles[src])]
  /\ hop' = <<"copy", dst, src>>
  /\ UNCHANGED <<enumVars, paramVars>>

NextHandles ==
  \/ \E h \in Contexts \cup Types, a \in 0..MaxAddr : MakeHandle(h, a)
  \/ \E dst \in Contexts \cup Types, src \in Contexts \cup Types :
       CopyHandle(dst, src)

----------------------------------------------------------------------------
(* The three groups of declarations share nothing, and each is explored on *)
(* its own, the other two left as initialised.                             *)

Init == InitEnum /\ InitParamsState /\ InitHandles

SpecEnum == Init /\ [][NextEnum]_vars

SpecParams == Init /\ [][NextParams]_vars

SpecHandles == Init /\ [][NextHandles]_vars

----------------------------------------------------------------------------
(* Properties of the enumerations, under SpecEnum.                         *)

(* C1: every enumerator of TfLiteType has the integer value the list       *)
(* gives (kTfLiteNoType = 0, kTfLiteFloat32 = 1, ... kTfLiteUInt16 = 16),  *)
(* every enumerator is in the list, and a TfLiteType object assigned an    *)
(* enumerator holds that integer.                                          *)
C1_TypeValues ==
  LET listed == << <<"kTfLiteNoType", 0>>,    <<"kTfLiteFloat32", 1>>,
                   <<"kTfLiteInt32", 2>>,     <<"kTfLiteUInt8", 3>>,
                   <<"kTfLiteInt64", 4>>,     <<"kTfLiteString", 5>>,
                   <<"kTfLiteBool", 6>>,      <<"kTfLiteInt16", 7>>,
                   <<"kTfLiteComplex64", 8>>, <<"kTfLiteInt8", 9>>,
                   <<"kTfLiteFloat16", 10>>,  <<"kTfLiteFloat64", 11>>,
                   <<"kTfLiteUInt64", 12>>,   <<"kTfLiteResource", 13>>,
                   <<"kTfLiteVariant", 14>>,  <<"kTfLiteUInt32", 15>>,
                   <<"kTfLiteUInt16", 16>> >>
  IN  /\ EnumNames(TfLiteType) = {listed[i][1] : i \in DOMAIN listed}
      /\ \A i \in DOMAIN listed :
           /\ EnumValue(TfLiteType, listed[i][1]) = listed[i][2]
           /\ typeName = listed[i][1] => type = listed[i][2]

C1_Witness ==
  /\ typeName = "kTfLiteUInt16"
  /\ type = 16

(* C2: TfLiteDimensionType has exactly the three enumerators               *)
(* kTfLiteDimDense = 0, kTfLiteDimSparseCSR = 1, kTfLiteDimSparseCOO = 2,  *)
(* and an object assigned one of them holds that integer.                  *)
C2_DimensionValues ==
  /\ Len(TfLiteDimensionType) = 3
  /\ EnumNames(TfLiteDimensionType) =
       {"kTfLiteDimDense", "kTfLiteDimSparseCSR", "kTfLiteDimSparseCOO"}
  /\ EnumValue(TfLiteDimensionType, "kTfLiteDimDense") = 0
  /\ EnumValue(TfLiteDimensionType, "kTfLiteDimSparseCSR") = 1
  /\ EnumValue(TfLiteDimensionType, "kTfLiteDimSparseCOO") = 2
  /\ dimName = "kTfLiteDimDense" => dimType = 0
  /\ dimName = "kTfLiteDimSparseCSR" => dimType = 1
  /\ dimName = "kTfLiteDimSparseCOO" => dimType = 2
  /\ dimType \in 0..2

C2_Witness ==
  /\ dimName = "kTfLiteDimSparseCOO"
  /\ dimType = 2

(* C3: TfLiteType has 17 enumerators with 17 distinct names and pairwise   *)
(* distinct values that are exactly 0 .. 16, so an integer in 0 .. 16      *)
(* stands for exactly one enumerator and any other integer for none.       *)
C3_TypeBijection ==
  /\ Len(TfLiteType) = 17
  /\ Cardinality(EnumNames(TfLiteType)) = 17
  /\ EnumValues(TfLiteType) = 0..16
  /\ \A m, n \in EnumNames(TfLiteType) :
       EnumValue(TfLiteType, m) = EnumValue(TfLiteType, n) => m = n
  /\ rawIn \in 0..16 =>
       /\ Cardinality(tags) = 1
       /\ \A n \in tags : EnumValue(TfLiteType, n) = rawIn
  /\ rawIn \notin 0..16 => tags = {}

C3_Witness ==
  /\ rawIn = 16
  /\ tags = {"kTfLiteUInt16"}

----------------------------------------------------------------------------
(* Properties of TfLiteQuantizationParams, under SpecParams.               *)

QFields == FieldNames(TfLiteQuantizationParams)

Half == <<1, -1>>

(* C4: a copy dst = src gives dst the scale and the zero_point src had,    *)
(* and leaves src as it was; so a value made with scale 0.5 and zero_point *)
(* 128 is copied with both members unchanged.                              *)
C4_CopyRoundTrip ==
  [][op'[1] = "copy" =>
       /\ mem'[op'[2]].scale = mem[op'[3]].scale
       /\ mem'[op'[2]].zero_point = mem[op'[3]].zero_point
       /\ mem'[op'[3]] = mem[op'[3]]
       /\ mem'[op'[2]] = mem'[op'[3]]]_vars

C4_Witness ==
  /\ op = <<"copy", "q", "p">>
  /\ scaleIn = Half
  /\ zeroIn = <<0, 128>>
  /\ mem["p"] = [scale |-> Half, zero_point |-> 128]
  /\ mem["q"] = [scale |-> Half, zero_point |-> 128]

(* C6: TfLiteQuantizationParams has two members and no other: first scale, *)
(* a float, then zero_point, an int32_t.  Every object has exactly these   *)
(* two members, and {s, z} puts s in scale and z in zero_point.            *)
C6_FieldOrder ==
  /\ Len(TfLiteQuantizationParams) = 2
  /\ TfLiteQuantizationParams[1] = M("float", "scale")
  /\ TfLiteQuantizationParams[2] = M("int32_t", "zero_point")
  /\ \A o \in Objs : DOMAIN mem[o] = {"scale", "zero_point"}
  /\ op[1] = "init" =>
       /\ mem[op[2]].scale = ToFloat(scaleIn)
       /\ mem[op[2]].zero_point = ToInt32(zeroIn)

C6_Witness ==
  /\ op = <<"init", "p", "">>
  /\ scaleIn = <<-3, -1>>
  /\ zeroIn = <<0, 128>>
  /\ mem["p"] = [scale |-> <<-3, -1>>, zero_point |-> 128]

(* C7: assigning a member of an object changes no other object, also not   *)
(* the one it was copied from, and changes no other member of the object.  *)
C7_AssignFrame ==
  [][op'[1] = "assign" =>
       /\ \A x \in Objs \ {op'[2]} : mem'[x] = mem[x]
       /\ \A g \in QFields \ {op'[3]} : mem'[op'[2]][g] = mem[op'[2]][g]]_vars

C7_Witness ==
  /\ origin["q"] = "p"
  /\ op = <<"assign", "q", "scale">>
  /\ mem["p"] = [scale |-> Half, zero_point |-> 128]
  /\ mem["q"] = [scale |-> <<-3, -1>>, zero_point |-> 128]

Int32Min == -2147483647 - 1

(* C8: zero_point always holds an integer in -2^31 .. 2^31 - 1.  A value   *)
(* in that range, both extremes included, is stored as given and a copy    *)
(* keeps it; a value outside it is stored as a different value, equal to   *)
(* it modulo 2^32.                                                         *)
C8_ZeroPointInt32 ==
  /\ \A o \in Objs : mem[o].zero_point \in Int32Min .. 2147483647
  /\ \A z \in ZeroInputs : InInt32(z) => Wide(ToInt32(z)) = z
  /\ (op[1] = "init" \/ (op[1] = "assign" /\ op[3] = "zero_point")) =>
       LET got == Wide(mem[op[2]].zero_point)
       IN  /\ InInt32(zeroIn) => got = zeroIn
           /\ ~InInt32(zeroIn) =>
                /\ got # zeroIn
                /\ got[2] = zeroIn[2]
                /\ (got[1] - zeroIn[1]) % 65536 = 0
  /\ op[1] = "copy" => mem[op[2]].zero_point = mem[op[3]].zero_point

C8_Witness ==
  /\ op = <<"copy", "q", "p">>
  /\ zeroIn = <<-32768, 0>>
  /\ mem["p"].zero_point = Int32Min
  /\ mem["q"].zero_point = Int32Min

(* C9: a scale is stored whatever its sign: a negative or zero scale given *)
(* in an initialiser or an assignment is stored as the float nearest to    *)
(* it, with its sign, exactly as a positive one is, and a copy keeps it.   *)
C9_ScaleSignFree ==
  /\ (op[1] = "init" \/ (op[1] = "assign" /\ op[3] = "scale")) =>
       /\ mem[op[2]].scale = ToFloat(scaleIn)
       /\ Sign(mem[op[2]].scale[1]) = Sign(scaleIn[1])
  /\ op[1] = "copy" => mem[op[2]].scale = mem[op[3]].scale

C9_Witness ==
  /\ op = <<"copy", "q", "p">>
  /\ scaleIn = <<-3, -1>>
  /\ mem["p"].scale = <<-3, -1>>
  /\ mem["q"].scale = <<-3, -1>>
  /\ mem["q"].scale[1] < 0

----------------------------------------------------------------------------
(* Properties of MlirContext and MlirType, under SpecHandles.              *)

(* C5: MlirContext and MlirType each have the one member ptr, a pointer,   *)
(* and nothing else.  The null pointer is a value of it: a handle can      *)
(* always be made from null, any handle, null or not, can always be        *)
(* copied, and the copy holds the pointer the original holds.              *)
C5_NullHandle ==
  /\ MlirContext = << M("void*", "ptr") >>
  /\ MlirType = << M("void*", "ptr") >>
  /\ \A h \in Contexts \cup Types :
       /\ DOMAIN handles[h] = {"ptr"}
       /\ handles[h].ptr \in 0..MaxAddr
       /\ ENABLED MakeHandle(h, 0)
  /\ \A dst \in Contexts : \A src \in Contexts \ {dst} : ENABLED CopyHandle(dst, src)
  /\ \A dst \in Types : \A src \in Types \ {dst} : ENABLED CopyHandle(dst, src)
  /\ hop[1] = "copy" => handles[hop[2]].ptr = handles[hop[3]].ptr

C5_Witness ==
  /\ hop = <<"copy", "ctx2", "ctx">>
  /\ handles["ctx"].ptr = 0
  /\ handles["ctx2"].ptr = 0
  /\ handles["ty"].ptr = 0
  /\ handles["ty2"].ptr # 0

====
